---- MODULE Spec2Model ----
(***************************************************************************)
(* The client-side API / session layer of the chat front end               *)
(* (src/frontend/src/app/signup/page.tsx, lines 161-417):                  *)
(*   - the token store (getToken / setToken / clearToken),                 *)
(*   - the request dispatcher apiFetch and its callers,                    *)
(*   - the streaming consumer sendMessageStream,                           *)
(* and the chat page that uses them (src/unnamed/part_002): its init       *)
(* effect and handleSend.                                                  *)
(*                                                                         *)
(* Text is a sequence of one-character strings, the wire a sequence of     *)
(* bytes.  An ASCII character is one byte, written as the character        *)
(* itself; "E9" is the character U+00E9 (e acute), on the wire the two     *)
(* bytes "C3" "A9"; "FFFD" is the replacement character U+FFFD a decoder   *)
(* emits for a broken sequence.  A JSON payload is written {x}, x naming   *)
(* the event object.                                                       *)
(*                                                                         *)
(* The code runs in the browser (typeof window !== "undefined"), one task  *)
(* at a time: a step is the code between two awaits.  The response body    *)
(* of an apiFetch request is read in the step that sees its status.        *)
(*                                                                         *)
(* A navigation (window.location.href = "/login") is recorded, the page    *)
(* is not torn down by it: requests already in flight are still answered.  *)
(***************************************************************************)
EXTENDS Integers, Sequences, FiniteSets

\* ------------------------------------------------------------------ bounds

\* The longest stream the backend writes, in lines.
MaxLines == 3
\* The backend writes its next line when at most this many bytes are unread.
MaxAhead == 2
\* One reader.read() returns at most this many bytes, or all that is unread.
MaxRead == 2
\* The largest number of apiFetch requests in flight at once.
MaxInFlight == 2
\* The largest number of messages the user sends from the chat page.
MaxSends == 2
\* The longest conversation history passed to sendMessage(Stream).
MaxHistory == 2

\* --------------------------------------------------------------- constants

\* line.slice(6): the length of the event marker "data: ".
PrefixLen == 6

\* localStorage.getItem returns null for a key that is not stored.
NULL == "<null>"
\* The values setToken can store: whatever the backend returns as token.
Tokens == {"", "t1", "t2"}
\* The argument of a callback when the event's field is absent (undefined).
Absent == <<"undefined">>

\* The concurrent sendMessageStream invocations.
Inv == {1, 2}

VARIABLES
    token,      \* localStorage["token"]: NULL or the stored credential
    api,        \* the apiFetch requests in flight
    last,       \* what the last step did: a response processed, a navigation
    sent,       \* sent[i]: the lines the backend has written on stream i
    term,       \* term[i]: whether the last of them ended with a newline
    wire,       \* wire[i]: the bytes the backend has written on stream i
    strm,       \* strm[i]: the locals of sendMessageStream invocation i
    page        \* the state of the chat page and the locals of its handlers

vars == <<token, api, last, sent, term, wire, strm, page>>

\* ---------------------------------------------------------------- the wire

\* The event marker of line.startsWith("data: ").
Prefix == <<"d", "a", "t", "a", ":", " ">>

\* The lines a backend may deliver.  The JSON payload {x} stands for:
\*   {a} {E9} {"type":"chunk","content":"a"}, {"type":"chunk","content":"\u00e9"}
\*   {D}      {"type":"done"}                   (no sources field)
\*   {S}      {"type":"done","sources":[src]}
\*   {E}      {"type":"error","content":"boom"}
LChunkA == Prefix \o <<"{", "a", "}">>
LChunkE == Prefix \o <<"{", "E9", "}">>
LDone == Prefix \o <<"{", "D", "}">>
LDoneS == Prefix \o <<"{", "S", "}">>
LError == Prefix \o <<"{", "E", "}">>
\* A line whose payload is not valid JSON (the closing brace is missing).
LBad == Prefix \o <<"{", "a">>
\* A line that does not start with the marker (an event-stream comment).
LComment == <<":">>

Menu == {LChunkA, LChunkE, LDone, LDoneS, LError, LBad, LComment}

\* UTF-8 encoding of a text.
RECURSIVE Encode(_)
Encode(text) ==
    IF text = <<>> THEN <<>>
    ELSE (IF Head(text) = "E9" THEN <<"C3", "A9">> ELSE <<Head(text)>>)
         \o Encode(Tail(text))

\* The bytes of one line on the wire, with or without its newline.
LineBytes(line, terminated) ==
    Encode(line \o (IF terminated THEN <<"\n">> ELSE <<>>))

\* ------------------------------------------------------------ TextDecoder

\* new TextDecoder() decodes UTF-8 and replaces a broken sequence by U+FFFD.
\* pend is the lead byte of a character whose second byte has not arrived.
\* What byte k of the input gives: nothing ("") for a lead byte that the next
\* byte completes or that is the last one, the character for the byte that
\* completes it, U+FFFD for a lead byte without its second byte and for a
\* second byte without its lead.
Emitted(full, k) ==
    IF full[k] = "C3"
    THEN IF k = Len(full) THEN ""
         ELSE IF full[k + 1] = "A9" THEN "" ELSE "FFFD"
    ELSE IF full[k] = "A9"
    THEN IF k > 1 /\ full[k - 1] = "C3" THEN "E9" ELSE "FFFD"
    ELSE full[k]

IsChar(c) == c # ""

Utf8(pend, bytes) ==
    LET full == pend \o bytes IN
    [text |-> SelectSeq([k \in 1..Len(full) |-> Emitted(full, k)], IsChar),
     pend |-> IF full # <<>> /\ full[Len(full)] = "C3" THEN <<"C3">> ELSE <<>>]

\* What the decoder emits for a pending lead byte when its input ends.
Flush(pend) == IF pend = <<>> THEN <<>> ELSE <<"FFFD">>

\* decoder.decode(value): one call decodes value as a whole text.
DecodeWhole(bytes) ==
    LET r == Utf8(<<>>, bytes) IN r.text \o Flush(r.pend)

\* decoder.decode(value) without the stream option forgets the pending byte
\* of the call before and flushes its own.
DecodeEach(pend, value) == [text |-> DecodeWhole(value), pend |-> <<>>]

\* decoder.decode(value, { stream: true }): the decoder keeps the bytes of an
\* unfinished character for its next call.
DecodeStream(pend, value) == Utf8(pend, value)

\* ------------------------------------------------------- lines and events

\* buffer.split("\n"): the segments between the newlines, n + 1 of them for n
\* newlines.
NewlineAt(text, k) == IF text[k] = "\n" THEN k ELSE 0

IsIndex(k) == k # 0

Split(text) ==
    LET nl == SelectSeq([k \in 1..Len(text) |-> NewlineAt(text, k)], IsIndex) IN
    [j \in 1..(Len(nl) + 1) |->
        SubSeq(text,
               IF j = 1 THEN 1 ELSE nl[j - 1] + 1,
               IF j <= Len(nl) THEN nl[j] - 1 ELSE Len(text))]

\* lines.pop(): the array without its last element.
Front(s) == SubSeq(s, 1, Len(s) - 1)

\* line.startsWith("data: ")
StartsWithPrefix(line) ==
    /\ Len(line) >= Len(Prefix)
    /\ SubSeq(line, 1, Len(Prefix)) = Prefix

\* line.slice(6)
Slice(line) == SubSeq(line, PrefixLen + 1, Len(line))

\* JSON.parse of a payload: the event object, or a SyntaxError.
JSONparse(payload) ==
    IF Len(payload) = 3 /\ payload[1] = "{" /\ payload[3] = "}"
       /\ payload[2] \in {"a", "E9", "FFFD", "D", "S", "E"}
    THEN LET x == payload[2] IN
         [ok |-> TRUE,
          type |-> IF x \in {"a", "E9", "FFFD"} THEN "chunk"
                   ELSE IF x \in {"D", "S"} THEN "done" ELSE "error",
          content |-> IF x \in {"a", "E9", "FFFD"} THEN <<x>>
                      ELSE IF x = "E" THEN <<"boom">> ELSE Absent,
          sources |-> IF x = "S" THEN <<"src">> ELSE Absent]
    ELSE [ok |-> FALSE, type |-> "", content |-> Absent, sources |-> Absent]

\* onDone(data.sources): the field passed as it is.
DoneArgRaw(sources) == sources

\* data.sources || []
DoneArg(sources) == IF sources = Absent THEN <<>> ELSE sources

\* The callbacks the caller passes (lines 310-312).
Callbacks == {"onChunk", "onDone", "onError"}

\* What a step of the for loop gives: the callbacks called, whether an
\* exception came out of it, and which.
NoCall == [calls |-> <<>>, thrown |-> FALSE, err |-> "-"]

\* A callback is called; it throws when it is one of those that throw.
Call(name, arg, throwing) ==
    [calls |-> <<<<name, arg>>>>,
     thrown |-> name \in throwing,
     err |-> IF name \in throwing THEN "CallbackError" ELSE "-"]

\* The body of the try block (lines 359-366): the callbacks it makes, and
\* whether it threw: JSON.parse on a malformed payload, or the callback.
TryBody(line, throwing) ==
    LET data == JSONparse(Slice(line)) IN
    IF ~data.ok THEN [calls |-> <<>>, thrown |-> TRUE, err |-> "SyntaxError"]
    ELSE IF data.type = "chunk" THEN Call("onChunk", data.content, throwing)
    ELSE IF data.type = "done"
         THEN Call("onDone", DoneArg(data.sources), throwing)
    ELSE IF data.type = "error" THEN Call("onError", data.content, throwing)
    ELSE NoCall

\* The same line handled without the catch clause: the error propagates.
HandleLineUncaught(line, throwing) ==
    IF StartsWithPrefix(line) THEN TryBody(line, throwing) ELSE NoCall

\* The same line handled with the try block around JSON.parse only: the
\* callbacks are called after it, and what they throw propagates.
HandleLineParseOnly(line, throwing) ==
    IF StartsWithPrefix(line) /\ JSONparse(Slice(line)).ok
    THEN TryBody(line, throwing)
    ELSE NoCall

\* One turn of the for loop (lines 357-370): a line without the marker is
\* passed over, and the catch clause swallows what the try block throws,
\* JSON.parse or a callback.
HandleLine(line, throwing) ==
    IF StartsWithPrefix(line)
    THEN [NoCall EXCEPT !.calls = TryBody(line, throwing).calls]
    ELSE NoCall

\* for (const line of lines): the callbacks of the lines in order, up to a
\* line that throws.
RECURSIVE ForLines(_, _, _)
ForLines(lines, calls, throwing) ==
    IF lines = <<>> THEN [NoCall EXCEPT !.calls = calls]
    ELSE LET r == HandleLine(Head(lines), throwing) IN
         IF r.thrown THEN [r EXCEPT !.calls = calls \o r.calls]
         ELSE ForLines(Tail(lines), calls \o r.calls, throwing)

\* buffer = lines.pop() || "" kept as buffer = "": the fragment is dropped.
KeepNothing(lines) == <<>>

\* buffer = lines.pop() || "": the last segment, the text after the last
\* newline, is kept for the next read.
KeepFragment(lines) == lines[Len(lines)]

\* ------------------------------------------------------------ the headers

\* `Bearer ${token}`: a template literal renders null as the text "null".
Template(tok) == IF tok = NULL THEN "null" ELSE tok

Bearer(text) == <<"Bearer", text>>

ContentJson == [k \in {"Content-Type"} |-> <<"application/json">>]

\* { ...a, ...b }: the keys of both, b's value where both have the key.
Merge(a, b) ==
    [k \in DOMAIN a \cup DOMAIN b |-> IF k \in DOMAIN b THEN b[k] ELSE a[k]]

\* if (token): null and the empty string are falsy.
Truthy(tok) == tok # NULL /\ tok # ""

\* The headers of the /chat/stream request (lines 317-320).
StreamHeaders(tok) ==
    Merge(ContentJson, [k \in {"Authorization"} |-> Bearer(Template(tok))])

\* ------------------------------------------------------------ the history

\* ChatMessage (lines 270-274): role, content and optional sources (Absent
\* when the message has none).  The messages of a conversation: the user's
\* question, without sources, and the assistant's answers.
Roles == {"user", "assistant"}

Messages ==
    {m \in [role : Roles, content : {"a", "b"}, sources : {Absent, <<"src">>}] :
        m.role = "user" => (m.content = "a" /\ m.sources = Absent)}

\* The conversation histories of at most MaxHistory messages.
Histories == UNION {[1..n -> Messages] : n \in 0..MaxHistory}

\* (m) => m: the message passed on as it is.
WholeMessage(m) == m

\* (m) => ({ role: m.role, content: m.content }) (lines 296-299, 326-329).
RoleContent(m) == [role |-> m.role, content |-> m.content]

\* conversationHistory.map(...): the images of the messages, in order.
ConversationHistory(conversationHistory) ==
    [k \in 1..Len(conversationHistory) |-> RoleContent(conversationHistory[k])]

\* ------------------------------------------------------ sendMessageStream

NoHeaders == [k \in {} |-> <<>>]

\* The locals of an invocation: where it stands (pc) and, once rejected, with
\* what (err); the token it read and the headers it sent; res.status;
\* whether it holds a reader of the body (reader); the bytes read so far
\* (pos); the decoder's pending bytes (pend); buffer; the callbacks made
\* (cb); the conversationHistory it was called with (arg), the
\* conversation_history of the body it sent (history) and those of its
\* callbacks that throw when called (throwing).  For the record: the
\* text decoded so far (decoded), whether a read has ended inside a
\* character (split) or inside the marker of a line (cut).
IdleStream ==
    [pc |-> "idle", err |-> "-", tok |-> NULL, headers |-> NoHeaders,
     arg |-> <<>>, history |-> <<>>, throwing |-> {},
     status |-> 0, reader |-> FALSE, pos |-> 0, pend |-> <<>>, buffer |-> <<>>, cb |-> <<>>,
     decoded |-> <<>>, split |-> FALSE, cut |-> FALSE]

\* The promise rejects: the callbacks made stay made, the locals
\* of the invocation are gone.
Rejected(s, err) ==
    [IdleStream EXCEPT !.pc = "rejected", !.err = err, !.tok = s.tok,
                       !.headers = s.headers, !.arg = s.arg,
                       !.history = s.history, !.throwing = s.throwing,
                       !.status = s.status, !.cb = s.cb]

\* Whether a buffer ends inside the marker of a line.
InMarker(buffer) ==
    /\ buffer # <<>>
    /\ Len(buffer) < Len(Prefix)
    /\ buffer = SubSeq(Prefix, 1, Len(buffer))

\* last: the request path whose response the step processed ("api",
\* "stream"), the response's status, the number of assignments to
\* window.location.href the step made, and how the awaited call ended.
\* ret: the token a login or signup that resolved in the step returned and
\* stored.  clears: the number of steps in a row, this one the last, that
\* called clearToken (two standing for two or more).  stale: whether the
\* step processed a 401 response to a request that carried another token
\* than the one stored when the response arrived.
\* Quiet is what a step leaves that processes no response and navigates nowhere.
Quiet == [path |-> "-", status |-> 0, navs |-> 0, outcome |-> "-",
          ret |-> "-", clears |-> 0, stale |-> FALSE]

\* One more step in a row that called clearToken.
Again(clears) == IF clears = 0 THEN 1 ELSE 2

\* Lines 304-331: sendMessageStream is called with a history and with
\* callbacks, some of which may throw; it reads the token, builds the body,
\* sends the request and awaits the response.
SendMessageStreamCall(i, conversationHistory, throwing) ==
    /\ strm[i].pc = "idle"
    /\ strm' = [strm EXCEPT ![i] = [@ EXCEPT
                    !.pc = "fetch", !.tok = token,
                    !.headers = StreamHeaders(token),
                    !.arg = conversationHistory,
                    !.history = ConversationHistory(conversationHistory),
                    !.throwing = throwing]]
    /\ last' = Quiet
    /\ UNCHANGED <<token, api, sent, term, wire, page>>

\* sendMessageStream called with callbacks that do not throw.
SendMessageStreamWith(i, conversationHistory) ==
    SendMessageStreamCall(i, conversationHistory, {})

\* sendMessageStream called for the first message of a conversation.
SendMessageStream(i) == SendMessageStreamWith(i, <<>>)

\* The buffer of the invocation that reads first, used by every invocation
\* (let buffer at module level).
BufferOfShared(i) == strm[1].buffer

\* let buffer = "" (line 347): a local of the invocation.
BufferOf(i) == strm[i].buffer

\* await fetch(...) rejects: the transport failed, no response arrived.
StreamFetchFails(i) ==
    /\ strm[i].pc = "fetch"
    /\ strm' = [strm EXCEPT ![i] = Rejected(@, "fetch failed")]
    /\ last' = Quiet
    /\ UNCHANGED <<token, api, sent, term, wire, page>>

\* error.detail || "Stream failed", the body being unparseable ("?", the
\* catch gives the fallback object), an object without detail ("") or an
\* object with the detail.
StreamDetail(body) == IF body \in {"?", ""} THEN <<"Stream failed">> ELSE <<body>>

\* Lines 333-345: the response arrives.  An error body that is the JSON
\* value null parses, and error.detail then throws a TypeError.
StreamResponse(i, status, body, hasBody) ==
    /\ strm[i].pc = "fetch"
    /\ IF status \notin 200..299
       THEN IF body = "null"
            THEN strm' = [strm EXCEPT ![i] =
                            Rejected([@ EXCEPT !.status = status], "TypeError")]
            ELSE strm' = [strm EXCEPT ![i] = [@ EXCEPT
                            !.pc = "returned", !.status = status,
                            !.cb = Append(@, <<"onError", StreamDetail(body)>>)]]
       ELSE IF ~hasBody
       THEN strm' = [strm EXCEPT ![i] = [@ EXCEPT
                        !.pc = "returned", !.status = status,
                        !.cb = Append(@, <<"onError", <<"No response body">>>>)]]
       ELSE strm' = [strm EXCEPT ![i] = [@ EXCEPT
                        !.pc = "read", !.status = status, !.reader = TRUE]]
    /\ last' = [Quiet EXCEPT !.path = "stream", !.status = status]
    /\ UNCHANGED <<token, api, sent, term, wire, page>>

\* Lines 349-371: a read returns n bytes; decode, split, dispatch the lines.
StreamRead(i, n) ==
    /\ strm[i].pc = "read"
    /\ n >= 1
    /\ strm[i].pos + n <= Len(wire[i])
    /\ LET s == strm[i]
           value == SubSeq(wire[i], s.pos + 1, s.pos + n)
           d == DecodeStream(s.pend, value)
           lines == Split(BufferOf(i) \o d.text)
           r == ForLines(Front(lines), <<>>, s.throwing)
       IN  strm' = [strm EXCEPT ![i] =
                     IF r.thrown
                     THEN Rejected([s EXCEPT !.cb = s.cb \o r.calls], r.err)
                     ELSE [s EXCEPT
                        !.pos = s.pos + n,
                        !.pend = d.pend,
                        !.buffer = KeepFragment(lines),
                        !.cb = s.cb \o r.calls,
                        !.decoded = s.decoded \o d.text,
                        !.split = s.split \/ d.pend # <<>>,
                        !.cut = s.cut \/ InMarker(KeepFragment(lines))]]
    /\ last' = Quiet
    /\ UNCHANGED <<token, api, sent, term, wire, page>>

\* The end of the stream handled as a done event: onDone([]) is called
\* when the read reports the end.
StreamEndCallsDone(i) ==
    /\ strm[i].pc = "read"
    /\ strm[i].pos = Len(wire[i])
    /\ strm' = [strm EXCEPT ![i] = [@ EXCEPT !.pc = "returned",
                                             !.cb = Append(@, <<"onDone", <<>>>>)]]
    /\ last' = Quiet
    /\ UNCHANGED <<token, api, sent, term, wire, page>>

\* The end of the stream with the text left in buffer handled as a last
\* line.
StreamEndFlushes(i) ==
    /\ strm[i].pc = "read"
    /\ strm[i].pos = Len(wire[i])
    /\ strm' = [strm EXCEPT ![i] = [@ EXCEPT
                    !.pc = "returned",
                    !.cb = @ \o HandleLine(strm[i].buffer,
                                           strm[i].throwing).calls]]
    /\ last' = Quiet
    /\ UNCHANGED <<token, api, sent, term, wire, page>>

\* Line 350: the connection is closed and every byte written has been read:
\* the read reports the end of the stream and the function returns.
StreamEnd(i) ==
    /\ strm[i].pc = "read"
    /\ strm[i].pos = Len(wire[i])
    /\ strm' = [strm EXCEPT ![i] = [@ EXCEPT !.pc = "returned"]]
    /\ last' = Quiet
    /\ UNCHANGED <<token, api, sent, term, wire, page>>

\* await reader.read() rejects: the connection broke in the middle.
StreamReadFails(i) ==
    /\ strm[i].pc = "read"
    /\ strm' = [strm EXCEPT ![i] = Rejected(@, "read failed")]
    /\ last' = Quiet
    /\ UNCHANGED <<token, api, sent, term, wire, page>>

\* The bytes written and not yet read.
Unread(i) == Len(wire[i]) - strm[i].pos

\* The backend writes one more line on the open stream; a line written
\* without its newline is the last one before the connection closes.
BackendWrites(i, line, terminated) ==
    /\ strm[i].pc = "read"
    /\ term[i]
    /\ Len(sent[i]) < MaxLines
    /\ Unread(i) <= MaxAhead
    /\ sent' = [sent EXCEPT ![i] = Append(@, line)]
    /\ term' = [term EXCEPT ![i] = terminated]
    /\ wire' = [wire EXCEPT ![i] = @ \o LineBytes(line, terminated)]
    /\ last' = Quiet
    /\ UNCHANGED <<token, api, strm, page>>

\* What the backend answers to /chat/stream.
StreamStatuses == {200, 401, 500}
StreamBodies == {"?", "", "null", "bad mode"}

StreamStep(i) ==
    \/ SendMessageStream(i)
    \/ StreamFetchFails(i)
    \/ \E status \in StreamStatuses, body \in StreamBodies, hasBody \in BOOLEAN :
          StreamResponse(i, status, body, hasBody)
    \/ \E line \in Menu, terminated \in BOOLEAN : BackendWrites(i, line, terminated)
    \/ \E n \in (1..MaxRead) \cup {Unread(i)} : StreamRead(i, n)
    \/ StreamEnd(i)
    \/ StreamReadFails(i)

\* ----------------------------------------------------------- token store

\* getToken (lines 169-172), in the browser: localStorage.getItem("token").
getToken == token

\* setToken that keeps a token already stored.
setTokenIfNone(t) == token' = IF token = NULL THEN t ELSE token

\* setToken (lines 174-176).
setToken(t) == token' = t

\* clearToken that stores the empty string instead of removing the key.
clearTokenEmpties == token' = ""

\* clearToken (lines 178-180): removeItem of a key that is not stored does
\* nothing and throws nothing.
clearToken == token' = NULL

\* isLoggedIn as getToken() !== null.
isLoggedInNonNull == getToken # NULL

\* isLoggedIn (lines 264-266): !!getToken().
isLoggedIn == Truthy(getToken)

\* A page calls isLoggedIn() and gets its answer.
CallIsLoggedIn ==
    /\ last' = [Quiet EXCEPT !.path = "isLoggedIn",
                             !.outcome = IF isLoggedIn THEN "true" ELSE "false"]
    /\ UNCHANGED <<token, api, sent, term, wire, strm, page>>

\* ----------------------------------------------------------------- apiFetch

\* The headers apiFetch sends as they would be if the caller's headers were
\* spread after the Authorization header was set.
ApiHeadersCallerLast(tok, optHeaders) ==
    Merge(Merge(ContentJson,
                IF Truthy(tok) THEN [k \in {"Authorization"} |-> Bearer(tok)]
                ELSE NoHeaders),
          optHeaders)

\* Lines 185-192: Content-Type, the caller's headers spread over it, then
\* Authorization set when the token is truthy.
ApiHeaders(tok, optHeaders) ==
    LET headers == Merge(ContentJson, optHeaders) IN
    IF Truthy(tok)
    THEN Merge(headers, [k \in {"Authorization"} |-> Bearer(tok)])
    ELSE headers

\* The headers a caller of apiFetch may pass in options.
CallerAuth == [k \in {"Authorization"} |-> <<"Basic", "caller">>]

\* The options.headers of the kinds of call: "auth" is login and signup,
\* "chat" sendMessage, "plain" every other exported function (none of them
\* passes headers), "custom" a call of apiFetch with headers of the caller's
\* own.
OptHeaders(kind) == IF kind = "custom" THEN CallerAuth ELSE NoHeaders

\* Lines 185-197: apiFetch reads the token, builds the headers and sends the
\* request; tok is the token it read.  Requests in flight are told apart by
\* what they carry: a second one like one in flight waits for its answer.
Request(kind, conversationHistory, history) ==
    [kind |-> kind, tok |-> getToken,
     headers |-> ApiHeaders(getToken, OptHeaders(kind)),
     arg |-> conversationHistory, history |-> history]

ApiFetchBody(kind, conversationHistory, history) ==
    LET r == Request(kind, conversationHistory, history) IN
    /\ Cardinality(api) < MaxInFlight
    /\ r \notin api
    /\ api' = api \cup {r}
    /\ last' = Quiet
    /\ UNCHANGED <<token, sent, term, wire, strm, page>>

\* apiFetch called with a body that holds no conversation history.
ApiFetch(kind) == ApiFetchBody(kind, <<>>, <<>>)

\* sendMessage (lines 282-302) up to its await.
sendMessage(conversationHistory) ==
    ApiFetchBody("chat", conversationHistory,
                 ConversationHistory(conversationHistory))

\* login (lines 236-246) up to its await.
login == ApiFetch("auth")

\* signup (lines 223-234) up to its await.
signup == ApiFetch("auth")

\* getMe, forgotPassword, sendMessage and the conversation calls up to
\* their await.
getMe == ApiFetch("plain")

\* apiFetch called with headers in its options.
ApiFetchWithHeaders == ApiFetch("custom")

\* await fetch(...) rejects: the transport failed, apiFetch rejects with it.
Failed(r) ==
    /\ r \in api
    /\ api' = api \ {r}
    /\ last' = [Quiet EXCEPT !.path = "api", !.outcome = "TypeError"]
    /\ UNCHANGED <<token, sent, term, wire, strm>>

\* The same for a call whose caller is not the chat page.
ApiFetchFails(r) == Failed(r) /\ UNCHANGED page

\* error.detail || "Request failed", the body being unparseable ("?"), an
\* object without detail ("") or an object with the detail.
ApiDetail(body) == IF body \in {"?", ""} THEN "Request failed" ELSE body

\* apiFetch with the status checks in the other order: if (!res.ok) first,
\* so that an unauthorized response has its body parsed for a detail.
ApiOutcomeOkFirst(kind, status, body) ==
    IF status \notin 200..299
    THEN IF body = "null" THEN "TypeError" ELSE ApiDetail(body)
    ELSE IF body = "?" THEN "SyntaxError"
    ELSE IF kind = "auth" /\ body = "null" THEN "TypeError"
    ELSE "resolved"

\* Lines 199-212 and the caller's continuation: how the awaited call ends.
\* 401: throw new Error("Unauthorized").  Another failure status: the
\* message of error.detail || "Request failed", or the TypeError of
\* error.detail when the body is the JSON value null.  Success: res.json()
\* rejects with a SyntaxError when the body does not parse; result.token
\* of login and signup throws a TypeError when the body is null.
ApiOutcome(kind, status, body) ==
    IF status = 401 THEN "Unauthorized"
    ELSE IF status \notin 200..299
    THEN IF body = "null" THEN "TypeError" ELSE ApiDetail(body)
    ELSE IF body = "?" THEN "SyntaxError"
    ELSE IF kind = "auth" /\ body = "null" THEN "TypeError"
    ELSE "resolved"

\* The 401 branch that clears the token only when it is still the one the
\* request was issued under.
OnUnauthorizedIfSame(r) ==
    IF getToken = r.tok THEN clearToken ELSE UNCHANGED token

\* Lines 199-200: if (res.status === 401) clearToken(), whatever token the
\* request carried.
OnUnauthorized(r) == clearToken

\* Lines 199-213 and the caller's continuation: the response of request r
\* arrives with this status and body; newToken is the token of a
\* successful login or signup response, next the requests the caller's
\* continuation goes on to issue.
Answered(r, status, body, newToken, next) ==
    LET outcome == ApiOutcome(r.kind, status, body)
        sets == outcome = "resolved" /\ r.kind = "auth"
    IN
    /\ r \in api
    /\ api' = (api \ {r}) \cup next
    /\ IF status = 401 THEN OnUnauthorized(r)
       ELSE IF sets THEN setToken(newToken)
       ELSE UNCHANGED token
    /\ last' = [path |-> "api", status |-> status,
                navs |-> IF status = 401 THEN 1 ELSE 0,
                outcome |-> outcome,
                ret |-> IF sets THEN newToken ELSE "-",
                clears |-> IF status = 401 THEN Again(last.clears) ELSE 0,
                stale |-> status = 401 /\ getToken # NULL /\ getToken # r.tok]
    /\ UNCHANGED <<sent, term, wire, strm>>

\* The same for a call whose caller is not the chat page and issues no
\* further request.
ApiResponse(r, status, body, newToken) ==
    Answered(r, status, body, newToken, {}) /\ UNCHANGED page

\* logout that also takes the credential off the requests in flight.
logoutRewrites ==
    /\ clearToken
    /\ api' = {[r EXCEPT !.tok = NULL,
                         !.headers = ApiHeaders(NULL, OptHeaders(r.kind))] :
               r \in api}
    /\ last' = [Quiet EXCEPT !.navs = 1, !.clears = Again(last.clears)]
    /\ UNCHANGED <<sent, term, wire, strm, page>>

\* logout (lines 259-262).
logout ==
    /\ clearToken
    /\ last' = [Quiet EXCEPT !.navs = 1, !.clears = Again(last.clears)]
    /\ UNCHANGED <<api, sent, term, wire, strm, page>>

\* What the backend answers to an apiFetch request.
ApiStatuses == {200, 401, 500}
ApiBodies == {"?", "", "null", "denied"}
\* The token field of the response: /auth/login and /auth/signup return one,
\* the other endpoints none.
ResponseTokens(kind) == IF kind = "auth" THEN Tokens ELSE {"-"}

\* ------------------------------------------------------------- the chat page
\* src/unnamed/part_002.  The page is mounted once; router.push is counted,
\* the page it leaves is not torn down.  A conversation has id 1.

\* Lines 66-76: the state hooks at mount, and the locals of the init effect
\* and of the running handleSend.
\*   init            position of the init effect: "-" not run, "login" sent to
\*                   /login unasked, "me" and "list" awaiting that request,
\*                   "ok" and "failed" finished
\*   asked           the requests the init effect has issued, in order
\*   pushes          calls of router.push("/login")
\*   pc              position of handleSend: "idle", or the request it awaits
\*   hist            messages as handleSend's closure holds it
\*   newMessages     handleSend's local of that name
\*   convId          handleSend's local of that name, 0 for null
\*   chat            how the sendMessage call of the last handleSend ended:
\*                   "-" not called, "sent", "reply" (resolved with a reply),
\*                   "empty" (resolved with null), "failed"
\*   fin             how the last handleSend ended, "running" until it does
NoPage ==
    [init |-> "-", initialLoading |-> TRUE, pushes |-> 0, asked |-> <<>>,
     input |-> "", loading |-> FALSE, messages |-> <<>>, activeConvId |-> 0,
     pc |-> "idle", hist |-> <<>>, newMessages |-> <<>>, convId |-> 0,
     chat |-> "-", fin |-> "-"]

\* What the user can have typed: nothing, blanks, a question.
Inputs == {"", " ", "a"}

\* input.trim() (line 148) is empty.
Blank(input) == input \in {"", " "}

\* Line 150.
UserMessage == [role |-> "user", content |-> "a", sources |-> Absent]

\* Lines 173-177: the assistant message made of the backend's reply.
AssistantMessage == [role |-> "assistant", content |-> "b", sources |-> <<"src">>]

\* Lines 189-192.
ErrorMessage == [role |-> "assistant", content |-> "error", sources |-> Absent]

\* The requests the page makes through apiFetch: getMe, listConversations,
\* createConversation, sendMessage, updateConversation.
PageKinds == {"me", "list", "create", "chat", "save"}

\* Lines 99-103: the init effect's catch and finally.
InitFailedNoFinally(p) ==
    [p EXCEPT !.init = "failed", !.pushes = @ + 1]

InitFailed(p) ==
    [p EXCEPT !.init = "failed", !.pushes = @ + 1, !.initialLoading = FALSE]

\* Lines 165-168: createConversation failed.
CreateFailedStuck(p) ==
    [p EXCEPT !.pc = "idle", !.fin = "createFailed"]

CreateFailed(p) ==
    [p EXCEPT !.loading = FALSE, !.pc = "idle", !.fin = "createFailed"]

\* Lines 188-197: the catch block shared by sendMessage, the reading of its
\* result and updateConversation, then the finally block.
Caught(p, chat, fin) ==
    [p EXCEPT !.messages = Append(p.newMessages, ErrorMessage),
              !.loading = FALSE, !.pc = "idle", !.chat = chat, !.fin = fin]

\* Lines 87-106: the init effect.
Mount ==
    /\ page.init = "-"
    /\ IF ~isLoggedIn
       THEN /\ page' = [page EXCEPT !.init = "login", !.pushes = @ + 1]
            /\ UNCHANGED api
       ELSE /\ page' = [page EXCEPT !.init = "me", !.asked = <<"me">>]
            /\ api' = api \cup {Request("me", <<>>, <<>>)}
    /\ last' = [Quiet EXCEPT !.path = "mount"]
    /\ UNCHANGED <<token, sent, term, wire, strm>>

\* The textarea's onChange, once the chat is rendered (line 209).
SetInput(v) ==
    /\ ~page.initialLoading
    /\ page' = [page EXCEPT !.input = v]
    /\ last' = Quiet
    /\ UNCHANGED <<token, api, sent, term, wire, strm>>

\* Line 148.
SendGuard(p) == ~(Blank(p.input) \/ p.loading)

\* Lines 147-172: handleSend up to its first await.
HandleSend ==
    /\ ~page.initialLoading
    /\ Len(page.messages) < 2 * MaxSends
    /\ IF ~SendGuard(page)
       THEN /\ last' = [Quiet EXCEPT !.path = "handleSend", !.outcome = "noop"]
            /\ UNCHANGED <<api, page>>
       ELSE LET newMessages == Append(page.messages, UserMessage)
                creates == page.activeConvId = 0
            IN
            /\ page' = [page EXCEPT !.messages = newMessages, !.input = "",
                                    !.loading = TRUE,
                                    !.pc = IF creates THEN "create" ELSE "chat",
                                    !.hist = page.messages,
                                    !.newMessages = newMessages,
                                    !.convId = page.activeConvId,
                                    !.chat = IF creates THEN "-" ELSE "sent",
                                    !.fin = "running"]
            /\ api' = api \cup
                 {IF creates
                  THEN Request("create", <<>>, <<>>)
                  ELSE Request("chat", page.messages,
                               ConversationHistory(page.messages))}
            /\ last' = [Quiet EXCEPT !.path = "handleSend", !.outcome = "send"]
    /\ UNCHANGED <<token, sent, term, wire, strm>>

\* What the awaiting code of the page does when its request of this kind
\* has resolved (ok; value is FALSE for the JSON value null) or rejected:
\* the page after it and the requests it goes on to issue.
Continue(kind, ok, value) ==
    CASE kind = "me" ->
            IF ok
            THEN [page |-> [page EXCEPT !.init = "list", !.asked = <<"me", "list">>],
                  next |-> {Request("list", <<>>, <<>>)}]
            ELSE [page |-> InitFailed(page), next |-> {}]
      [] kind = "list" ->
            IF ok
            THEN [page |-> [page EXCEPT !.init = "ok", !.initialLoading = FALSE],
                  next |-> {}]
            ELSE [page |-> InitFailed(page), next |-> {}]
      [] kind = "create" ->
            IF ok /\ value
            THEN [page |-> [page EXCEPT !.activeConvId = 1, !.convId = 1,
                                        !.pc = "chat", !.chat = "sent"],
                  next |-> {Request("chat", page.hist,
                                    ConversationHistory(page.hist))}]
            ELSE [page |-> CreateFailed(page), next |-> {}]
      [] kind = "chat" ->
            IF ok /\ value
            THEN [page |-> [page EXCEPT
                              !.messages = Append(page.newMessages, AssistantMessage),
                              !.pc = "save", !.chat = "reply"],
                  next |-> {Request("save", <<>>, <<>>)}]
            ELSE IF ok
            THEN [page |-> Caught(page, "empty", "chatEmpty"), next |-> {}]
            ELSE [page |-> Caught(page, "failed", "chatFailed"), next |-> {}]
      [] kind = "save" ->
            IF ok
            THEN [page |-> [page EXCEPT !.loading = FALSE, !.pc = "idle",
                                        !.fin = "saved"],
                  next |-> {}]
            ELSE [page |-> Caught(page, page.chat, "saveFailed"), next |-> {}]

\* The response of a request of the page arrives and the awaiting code runs
\* to its next await or to its end.
PageResponse(r, status, body) ==
    LET c == Continue(r.kind, ApiOutcome(r.kind, status, body) = "resolved",
                      body # "null")
    IN
    /\ r \in api
    /\ r.kind \in PageKinds
    /\ Answered(r, status, body, "-", c.next)
    /\ page' = c.page

\* The fetch of a request of the page fails.
PageFetchFails(r) ==
    /\ r \in api
    /\ r.kind \in PageKinds
    /\ Failed(r)
    /\ page' = Continue(r.kind, FALSE, FALSE).page

\* ------------------------------------------------------------ specifications

NoStreams ==
    /\ page = NoPage
    /\ sent = [i \in Inv |-> <<>>]
    /\ term = [i \in Inv |-> TRUE]
    /\ wire = [i \in Inv |-> <<>>]
    /\ strm = [i \in Inv |-> IdleStream]

\* The session layer: the page starts without a credential; requests are
\* issued and answered in any order, at most MaxInFlight at once, next to one
\* sendMessageStream invocation whose stream the backend closes without
\* writing an event (SpecStream has the events).
Init ==
    /\ token = NULL
    /\ api = {}
    /\ last = Quiet
    /\ NoStreams

Next ==
    \/ SendMessageStream(1)
    \/ StreamFetchFails(1)
    \/ \E status \in StreamStatuses, body \in StreamBodies, hasBody \in BOOLEAN :
          StreamResponse(1, status, body, hasBody)
    \/ StreamEnd(1)
    \/ StreamReadFails(1)
    \/ login
    \/ signup
    \/ getMe
    \/ ApiFetchWithHeaders
    \/ \E r \in api : ApiFetchFails(r)
    \/ \E r \in api, status \in ApiStatuses, body \in ApiBodies :
          \E newToken \in ResponseTokens(r.kind) :
              ApiResponse(r, status, body, newToken)
    \/ logout

Spec == Init /\ [][Next]_vars

\* The token store and the request dispatcher on their own: the calls that
\* read, set and clear the token, the requests they issue and the answers,
\* next to a /chat/stream request that stays in flight.
NextSession ==
    \/ SendMessageStream(1)
    \/ login
    \/ signup
    \/ getMe
    \/ ApiFetchWithHeaders
    \/ \E r \in api : ApiFetchFails(r)
    \/ \E r \in api, status \in ApiStatuses, body \in ApiBodies :
          \E newToken \in ResponseTokens(r.kind) :
              ApiResponse(r, status, body, newToken)
    \/ logout
    \/ CallIsLoggedIn

SpecSession == Init /\ [][NextSession]_vars

\* The streaming consumer: one invocation by a logged-in page, consuming any
\* stream of at most MaxLines lines.
InitStream ==
    /\ token = "t1"
    /\ api = {}
    /\ last = Quiet
    /\ NoStreams

NextStream == StreamStep(1)

SpecStream == InitStream /\ [][NextStream]_vars

\* The request bodies: a logged-in page calls sendMessage, one call at a
\* time, and sendMessageStream with any history of at most MaxHistory
\* messages; a call of sendMessage ends when its request fails.
NextChat ==
    \/ api = {} /\ \E h \in Histories : sendMessage(h)
    \/ \E h \in Histories : SendMessageStreamWith(1, h)
    \/ \E r \in api : ApiFetchFails(r)

SpecChat == InitStream /\ [][NextChat]_vars

\* Two invocations at once on a logged-in page, both streams opened.  The
\* backend writes chunks of U+00E9 and a done event on the first stream,
\* chunks of "a" and an error event on the second, MaxLines lines on each.
Script(i, k) ==
    IF k < MaxLines THEN (IF i = 1 THEN LChunkE ELSE LChunkA)
    ELSE (IF i = 1 THEN LDone ELSE LError)

StreamStepTwo(i) ==
    \/ SendMessageStream(i)
    \/ StreamResponse(i, 200, "", TRUE)
    \/ BackendWrites(i, Script(i, Len(sent[i]) + 1), TRUE)
    \/ \E n \in (1..MaxRead) \cup {Unread(i)} : StreamRead(i, n)
    \/ StreamEnd(i)

NextTwo == \E i \in Inv : StreamStepTwo(i)

SpecTwo == InitStream /\ [][NextTwo]_vars

\* Callbacks that throw: a logged-in page calls sendMessageStream with any
\* of its callbacks throwing; the stream is opened and the backend writes
\* chunk, done and error events in any order.
NextThrow ==
    \/ \E throwing \in SUBSET Callbacks : SendMessageStreamCall(1, <<>>, throwing)
    \/ StreamResponse(1, 200, "", TRUE)
    \/ \E line \in {LChunkA, LDone, LError} : BackendWrites(1, line, TRUE)
    \/ \E n \in (1..MaxRead) \cup {Unread(1)} : StreamRead(1, n)
    \/ StreamEnd(1)

SpecThrow == InitStream /\ [][NextThrow]_vars

\* The chat page: it mounts over any stored token, the user types and sends,
\* and every request of the page is answered or fails.
InitPage ==
    /\ token \in {NULL, "", "t1"}
    /\ api = {}
    /\ last = Quiet
    /\ NoStreams

NextPage ==
    \/ Mount
    \/ \E v \in Inputs : SetInput(v)
    \/ HandleSend
    \/ \E r \in api, status \in ApiStatuses, body \in ApiBodies :
          PageResponse(r, status, body)
    \/ \E r \in api : PageFetchFails(r)

SpecPage == InitPage /\ [][NextPage]_vars

\* ------------------------------------------------------------------ claims

\* The Authorization header of a set of headers, <<>> when there is none.
AuthOf(headers) ==
    IF "Authorization" \in DOMAIN headers THEN headers["Authorization"] ELSE <<>>

\* The sendMessageStream invocations whose request has been sent.
Issued == {i \in Inv : strm[i].pc # "idle"}

\* C1: a request issued while no credential is stored (an apiFetch request or
\* the /chat/stream request) carries no Authorization header.
C1_NoCredentialNoAuthorization ==
    /\ \A i \in Issued : strm[i].tok = NULL => AuthOf(strm[i].headers) = <<>>
    /\ \A r \in api : r.tok = NULL => AuthOf(r.headers) = <<>>

\* C2: when a response with status 401 has been processed, on the apiFetch
\* path or on the /chat/stream path, no credential is stored and the step
\* made exactly one navigation to the login screen.
C2_UnauthorizedClearsAndNavigates ==
    last.status = 401 => (token = NULL /\ last.navs = 1)

C4_NeverRejects == \A i \in Inv : strm[i].pc # "rejected"

\* The invocations whose stream was opened (the read loop was entered).
Opened == {i \in Inv : strm[i].reader}

IsTerminal(call) == call[1] \in {"onDone", "onError"}

\* C5: within one invocation no onChunk call follows an onDone or onError call.
C5_NoChunkAfterTerminal ==
    \A i \in Inv : \A j, k \in 1..Len(strm[i].cb) :
        (j < k /\ IsTerminal(strm[i].cb[j])) => strm[i].cb[k][1] # "onChunk"

\* C6: within one invocation at most one terminal callback (onDone or
\* onError) is made in total.
C6_AtMostOneTerminal ==
    \A i \in Inv : \A j, k \in 1..Len(strm[i].cb) :
        (IsTerminal(strm[i].cb[j]) /\ IsTerminal(strm[i].cb[k])) => j = k

\* The callback a line of the wire format stands for, by the wire format
\* (spec section 6): none for a line that is no event.
CallOf(line) ==
    IF line = LChunkA THEN <<<<"onChunk", <<"a">>>>>>
    ELSE IF line = LChunkE THEN <<<<"onChunk", <<"E9">>>>>>
    ELSE IF line = LDone THEN <<<<"onDone", <<>>>>>>
    ELSE IF line = LDoneS THEN <<<<"onDone", <<"src">>>>>>
    ELSE IF line = LError THEN <<<<"onError", <<"boom">>>>>>
    ELSE <<>>

RECURSIVE CallsOf(_)
CallsOf(lines) ==
    IF lines = <<>> THEN <<>> ELSE CallOf(Head(lines)) \o CallsOf(Tail(lines))

\* The newline-terminated lines the backend has written.
Complete(i) == IF term[i] THEN sent[i] ELSE Front(sent[i])

\* Chunk events c1..cn followed by one done event, each newline-terminated.
ChunksThenDone(i) ==
    /\ term[i]
    /\ sent[i] # <<>>
    /\ sent[i][Len(sent[i])] \in {LDone, LDoneS}
    /\ \A k \in 1..(Len(sent[i]) - 1) : sent[i][k] \in {LChunkA, LChunkE}

\* C7: an invocation that has returned from a stream of chunk events c1..cn
\* and one done event has called onChunk with c1..cn in wire order, then onDone
\* once with the event's sources ([] when absent), and nothing else.
C7_ChunksInOrderThenDone ==
    \A i \in Inv :
        (strm[i].pc = "returned" /\ ChunksThenDone(i))
            => strm[i].cb = CallsOf(sent[i])

\* C7's case: two different chunks and a done event without sources have
\* been consumed to the end.
C7_Witness ==
    /\ strm[1].pc = "returned"
    /\ sent[1] = <<LChunkA, LChunkE, LDone>>
    /\ term[1]
    /\ strm[1].cb = <<<<"onChunk", <<"a">>>>, <<"onChunk", <<"E9">>>>, <<"onDone", <<>>>>>>

\* C8: whatever the reads were, the callbacks made are those of the complete
\* lines of the text read so far, each once and in order, and buffer is the
\* unfinished last fragment of that text.
C8_SplitIndependent ==
    \A i \in Opened :
        LET lines == Split(strm[i].decoded) IN
        /\ strm[i].cb = ForLines(Front(lines), <<>>, strm[i].throwing).calls
        /\ strm[i].pc = "read" => strm[i].buffer = lines[Len(lines)]

\* C8's case: a read ended inside the marker of a line, and the stream was
\* consumed to the end with two events dispatched.
C8_Witness ==
    /\ strm[1].pc = "returned"
    /\ strm[1].cut
    /\ Len(sent[1]) >= 2
    /\ term[1]
    /\ strm[1].cb = CallsOf(sent[1])
    /\ Len(strm[1].cb) >= 2

\* C9: the text appended to buffer over the reads, with the replacement
\* character for a character still unfinished, is the text that decoding
\* all the bytes read so far at once gives.
C9_DecodedAsWhole ==
    \A i \in Opened :
        strm[i].decoded \o Flush(strm[i].pend)
            = DecodeWhole(SubSeq(wire[i], 1, strm[i].pos))

\* C9's case: a read ended between the two bytes of a character, a later
\* read brought the second byte, and the character reached onChunk intact.
C9_Witness ==
    /\ strm[1].pc = "read"
    /\ strm[1].split
    /\ strm[1].pend = <<>>
    /\ strm[1].cb = <<<<"onChunk", <<"E9">>>>>>
    /\ strm[1].decoded = LChunkE \o <<"\n">>

IsEvent(line) == line \notin {LBad, LComment}

\* C10: a malformed line or a line without the marker makes no callback and
\* does not end the invocation: no parse error escapes, and the callbacks
\* made for the complete lines read are those of the stream without these
\* lines.
C10_BadLinesSkipped ==
    \A i \in Inv :
        /\ strm[i].err # "SyntaxError"
        /\ strm[i].pc = "returned" /\ strm[i].reader
              => strm[i].cb = CallsOf(SelectSeq(Complete(i), IsEvent))

\* C10's case: a malformed line and a line without the marker between two
\* chunks, consumed to the end.
C10_Witness ==
    /\ strm[1].pc = "returned"
    /\ term[1]
    /\ \E x, y \in {LChunkA, LChunkE}, z \in {LBad, LComment} :
          /\ sent[1] = <<x, z, y>>
          /\ strm[1].cb = CallOf(x) \o CallOf(y)

\* The invocations whose response arrived and whose stream was not opened:
\* a non-success status, or a success without a body.
Unopened == {i \in Inv : strm[i].status # 0 /\ ~strm[i].reader}

\* C11: an invocation whose stream could not be opened has called onError
\* exactly once, with the detail of the error body or a fixed message, has
\* made no other callback and has read nothing from the body.
C11_UnopenedOneError ==
    \A i \in Unopened :
        /\ Len(strm[i].cb) = 1
        /\ strm[i].cb[1][1] = "onError"
        /\ strm[i].cb[1][2] \in
              {<<"bad mode">>, <<"Stream failed">>, <<"No response body">>}
        /\ strm[i].pos = 0

\* Whether one of the lines is a done or an error event.
HasTerminalEvent(lines) ==
    \E k \in 1..Len(lines) : lines[k] \in {LDone, LDoneS, LError}

\* C12: an invocation that returns at the end of an opened stream on which
\* the backend wrote no done and no error event has made no onDone and no
\* onError call, whatever chunks it delivered.
C12_NoTerminalWithoutEvent ==
    \A i \in Opened :
        (strm[i].pc = "returned" /\ ~HasTerminalEvent(sent[i]))
            => \A k \in 1..Len(strm[i].cb) : ~IsTerminal(strm[i].cb[k])

\* C12's case: the stream ended after two chunks and a malformed line; both
\* chunks were delivered and the invocation returned without a terminal
\* callback.
C12_Witness ==
    /\ strm[1].pc = "returned"
    /\ strm[1].reader
    /\ sent[1] = <<LChunkA, LChunkE, LBad>>
    /\ strm[1].cb = <<<<"onChunk", <<"a">>>>, <<"onChunk", <<"E9">>>>>>

\* Whether the step processed an apiFetch response or transport failure.
ApiDone == last'.path = "api"

\* Whether the step was a logout.
LoggedOut == last'.path = "-" /\ last'.navs = 1

\* C13: the stored credential changes only so: a login or signup that
\* resolves stores the token it returned, whatever was stored before; the
\* credential becomes absent only in a logout or in processing a 401
\* response; a request that fails otherwise leaves it as it was.
C13_CredentialTransitions ==
    [][/\ (ApiDone /\ last'.ret # "-") => token' = last'.ret
       /\ token' # token =>
             \/ token' = NULL /\ (LoggedOut \/ (ApiDone /\ last'.status = 401))
             \/ token' # NULL /\ ApiDone /\ last'.outcome = "resolved"
                               /\ token' = last'.ret
       /\ (ApiDone /\ last'.outcome \notin {"resolved", "Unauthorized"})
             => token' = token]_vars

\* C13's case: a login has just resolved and stored "t2" over the "t1" that
\* a request still in flight was issued under.
C13_Witness ==
    /\ last.path = "api"
    /\ last.outcome = "resolved"
    /\ last.ret = "t2"
    /\ token = "t2"
    /\ \E r \in api : r.tok = "t1"

\* C14 as stated: isLoggedIn() answers true exactly when getToken() returns
\* a value other than null, the empty string included.
C14_TrueIffPresent ==
    last.path = "isLoggedIn" => (last.outcome = "true" <=> getToken # NULL)

\* C14 as amended: isLoggedIn() answers true exactly when getToken() returns
\* a non-empty string, false for null and for the empty string, and the call
\* changes nothing of the token store or of the requests.
C14_TrueIffNonEmpty ==
    [][last'.path = "isLoggedIn" =>
          /\ last'.outcome = "true" <=> (token # NULL /\ token # "")
          /\ UNCHANGED <<token, api, sent, term, wire, strm, page>>]_vars

\* C14's case: isLoggedIn() has answered false while the empty string is
\* stored as the token.
C14_Witness ==
    /\ last.path = "isLoggedIn"
    /\ last.outcome = "false"
    /\ token = ""

\* C15: after a step that calls clearToken, the first or the second in a
\* row, whatever was stored before, no credential is stored, isLoggedIn() is
\* false, and the call threw nothing: the step went on to its navigation.
C15_ClearIdempotent ==
    last.clears >= 1 => (token = NULL /\ ~isLoggedIn /\ last.navs = 1)

\* C15's case: two steps in a row have called clearToken, the second on an
\* empty store.
C15_Witness ==
    /\ last.clears = 2
    /\ token = NULL

\* C16: the headers of a request are those built from the token stored when
\* it was issued, and stay so while it is in flight, whatever happens to the
\* stored token; a request issued in a step is built from the token stored
\* at that step.
C16_HeaderCaptured ==
    [][/\ \A r \in api' :
             /\ r.headers = ApiHeaders(r.tok, OptHeaders(r.kind))
             /\ r \notin api => r.tok = token
       /\ \A r \in api : ~ApiDone => r \in api'
       /\ \A i \in Inv :
             /\ strm'[i].pc # "idle"
                   => strm'[i].headers = StreamHeaders(strm'[i].tok)
             /\ strm[i].pc # "idle" => /\ strm'[i].tok = strm[i].tok
                                       /\ strm'[i].headers = strm[i].headers
             /\ (strm[i].pc = "idle" /\ strm'[i].pc # "idle")
                   => strm'[i].tok = token]_vars

\* C16's case: the credential was cleared while an apiFetch request and the
\* /chat/stream request issued under "t1" were in flight: both still carry
\* "Bearer t1", and a request issued after the clear carries no
\* Authorization header.
C16_Witness ==
    /\ token = NULL
    /\ strm[1].pc = "fetch"
    /\ AuthOf(strm[1].headers) = Bearer("t1")
    /\ \E r \in api : AuthOf(r.headers) = Bearer("t1")
    /\ \E r \in api : r.tok = NULL /\ AuthOf(r.headers) = <<>>

\* C17: processing a 401 response ends the call with the error
\* "Unauthorized" whatever the body holds, and a step that processes a
\* response or a transport failure takes one request out of flight and puts
\* none in: nothing is retried.
C17_ShortCircuitNoRetry ==
    [][ApiDone =>
          /\ last'.status = 401 => last'.outcome = "Unauthorized"
          /\ api' \subseteq api
          /\ Cardinality(api \ api') = 1]_vars

\* C17's case: a 401 response has been processed while another request is
\* still in flight.
C17_Witness ==
    /\ last.path = "api"
    /\ last.status = 401
    /\ last.outcome = "Unauthorized"
    /\ last.navs = 1
    /\ api # {}

\* C18: a step that processes an apiFetch outcome other than a 401 response
\* makes no navigation and leaves the stored credential as it was (but for
\* the token login and signup store once apiFetch has resolved); for a
\* failure status the call rejects with the detail of the body or with
\* "Request failed".
C18_OtherOutcomesFrame ==
    [][(ApiDone /\ last'.status # 401) =>
          /\ last'.navs = 0
          /\ token' = token \/ (last'.outcome = "resolved" /\ token' = last'.ret)
          /\ last'.status \notin (200..299) \cup {0}
                => last'.outcome \in {"denied", "Request failed"}]_vars

\* The conversation histories passed and sent: of the sendMessage requests
\* in flight and of the sendMessageStream invocations issued.
Bodies ==
    {<<r.arg, r.history>> : r \in {q \in api : q.kind = "chat"}}
        \cup {<<strm[i].arg, strm[i].history>> : i \in Issued}

\* C19: the conversation_history sent is as long as the history passed,
\* entry k holds the role and the content of message k and nothing else.
C19_HistoryRoleContent ==
    \A b \in Bodies :
        /\ Len(b[2]) = Len(b[1])
        /\ \A k \in 1..Len(b[1]) :
              /\ DOMAIN b[2][k] = {"role", "content"}
              /\ b[2][k].role = b[1][k].role
              /\ b[2][k].content = b[1][k].content

\* C19's case: sendMessage and sendMessageStream were both called with a
\* history of a question and an answer that has sources.
C19_Witness ==
    LET h == <<[role |-> "user", content |-> "a", sources |-> Absent],
               [role |-> "assistant", content |-> "b", sources |-> <<"src">>]>>
    IN  /\ \E r \in api : r.kind = "chat" /\ r.arg = h /\ Len(r.history) = 2
        /\ strm[1].pc = "fetch"
        /\ strm[1].arg = h
        /\ Len(strm[1].history) = 2

\* The callbacks invocation i makes running alone on the bytes it has read:
\* those of the complete lines of their text.
Alone(i) ==
    ForLines(Front(Split(DecodeWhole(SubSeq(wire[i], 1, strm[i].pos)))),
             <<>>, strm[i].throwing).calls

\* C20: with two invocations reading in any interleaving, the callbacks
\* each has made are those it makes alone on its own stream.
C20_StreamsIndependent == \A i \in Opened : strm[i].cb = Alone(i)

\* C20's case: both invocations have delivered a chunk of their own stream
\* and both hold an unfinished line in their buffer at the same time.
C20_Witness ==
    /\ strm[1].pc = "read" /\ strm[2].pc = "read"
    /\ strm[1].buffer # <<>> /\ strm[2].buffer # <<>>
    /\ strm[1].buffer # strm[2].buffer
    /\ strm[1].cb = <<<<"onChunk", <<"E9">>>>>>
    /\ strm[2].cb = <<<<"onChunk", <<"a">>>>>>

\* C21: a step that processes a 401 response leaves no credential stored,
\* whatever token the request carried and whatever token was stored when
\* the response arrived.
C21_UnauthorizedClearsAnyToken ==
    [][\A r \in api \ api' :
          (ApiDone /\ last'.status = 401) => token' = NULL]_vars

\* C21's case: a 401 response to a request issued under another token than
\* the one stored has been processed, and the store is empty.
C21_Witness ==
    /\ last.path = "api"
    /\ last.status = 401
    /\ last.stale
    /\ token = NULL

\* C22: an invocation that has returned from a stream whose last line came
\* without its newline has made the callbacks of the lines before it and
\* none for that line, an event or not; the text of the line is what it
\* left in buffer.
C22_UnterminatedLineDropped ==
    \A i \in Opened :
        (strm[i].pc = "returned" /\ ~term[i]) =>
            /\ strm[i].cb = CallsOf(SelectSeq(Front(sent[i]), IsEvent))
            /\ strm[i].buffer = sent[i][Len(sent[i])]

\* C22's case: the stream ended after a chunk and a done event that came
\* without its newline: the chunk was delivered, onDone was not called.
C22_Witness ==
    /\ strm[1].pc = "returned"
    /\ ~term[1]
    /\ sent[1] = <<LChunkA, LDoneS>>
    /\ strm[1].buffer = LDoneS
    /\ strm[1].cb = <<<<"onChunk", <<"a">>>>>>

\* C23: what a callback throws while a line is dispatched never comes out
\* of sendMessageStream, and the lines after it are dispatched all the same:
\* an invocation that has returned has called the callback of every
\* complete event line, those that threw included.
C23_CallbackErrorSwallowed ==
    \A i \in Inv :
        /\ strm[i].err # "CallbackError"
        /\ (strm[i].pc = "returned" /\ strm[i].reader /\ strm[i].throwing # {})
              => strm[i].cb = CallsOf(SelectSeq(Complete(i), IsEvent))

\* C23's case: every callback throws; a chunk, an error event and a done
\* event were all dispatched and the invocation returned.
C23_Witness ==
    /\ strm[1].pc = "returned"
    /\ strm[1].throwing = Callbacks
    /\ sent[1] = <<LChunkA, LError, LDone>>
    /\ strm[1].cb = <<<<"onChunk", <<"a">>>>, <<"onError", <<"boom">>>>,
                       <<"onDone", <<>>>>>>

\* The requests handleSend makes.
SendKinds == {"create", "chat", "save"}

\* The ways handleSend finishes after it has set loading: conversation
\* creation failure, save done, chat failure, a chat result that cannot be
\* read, save failure.
Finishes == {"createFailed", "saved", "chatFailed", "chatEmpty", "saveFailed"}

\* C24: handleSend changes nothing when the input is blank or a send is
\* loading; otherwise it sets loading to true, and by whatever path it
\* finishes loading is false again.  Loading is true only while handleSend
\* runs and awaits a request in flight, so the page does not stay stuck.
C24_SendGuardedAndReleased ==
    [][/\ last'.path = "handleSend" =>
            IF Blank(page.input) \/ page.loading
            THEN UNCHANGED <<token, api, sent, term, wire, strm, page>>
            ELSE ~page.loading /\ page'.loading /\ page'.fin = "running"
       /\ (page.fin = "running" /\ page'.fin # "running") =>
            page'.fin \in Finishes /\ ~page'.loading
       /\ page'.loading =>
            /\ page'.fin = "running"
            /\ \E r \in api' : r.kind = page'.pc /\ r.kind \in SendKinds
      ]_vars

C24_Witness ==
    /\ page.fin = "saveFailed"
    /\ ~page.loading
    /\ last.path = "api"
    /\ Len(page.messages) = 2 * MaxSends

\* C25: once handleSend has sent the chat request and finished, the list
\* shown is the list before it, the user message and one assistant message:
\* the reply if sendMessage resolved with one, whether or not the save that
\* follows fails, and the error message if sendMessage failed.
C25_ReplyShownUnlessChatFailed ==
    (page.chat \in {"reply", "failed"} /\ page.fin # "running") =>
        page.messages =
            Append(Append(page.hist, UserMessage),
                   IF page.chat = "reply" THEN AssistantMessage ELSE ErrorMessage)

\* C26: the init effect of the chat page.  Without a credential (no token,
\* or the empty token that isLoggedIn reads as none) it calls router.push
\* once and issues no request.  With one it requests getMe, and
\* listConversations only once getMe has resolved; a failure of either
\* calls router.push once; initialLoading is false exactly when the
\* sequence has finished, by success or by failure.
C26_MountChecksThenLoads ==
    [][/\ (page.init = "-" /\ page'.init # "-") =>
            IF Truthy(token)
            THEN /\ page'.init = "me" /\ page'.pushes = 0
                 /\ \E r \in api' \ api : r.kind = "me" /\ api' = api \cup {r}
            ELSE /\ page'.init = "login" /\ page'.pushes = 1
                 /\ api' = api
       /\ \A r \in api' \ api :
            /\ r.kind = "me" => page.init = "-" /\ Truthy(token)
            /\ r.kind = "list" =>
                 /\ \E q \in api \ api' : q.kind = "me"
                 /\ last'.outcome = "resolved"
                 /\ page'.asked = <<"me", "list">>
       /\ \A q \in api \ api' : q.kind \in {"me", "list"} =>
            IF last'.outcome # "resolved"
            THEN /\ page'.init = "failed" /\ ~page'.initialLoading
                 /\ page'.pushes = page.pushes + 1
            ELSE /\ page'.pushes = page.pushes
                 /\ page'.initialLoading = (q.kind = "me")
                 /\ page'.init = IF q.kind = "me" THEN "list" ELSE "ok"
       /\ page'.initialLoading = (page'.init \notin {"ok", "failed"})
       /\ page'.pushes = IF page'.init \in {"login", "failed"} THEN 1 ELSE 0
       /\ page'.init = "login" =>
            page'.asked = <<>> /\ \A r \in api' : r.kind \notin PageKinds
      ]_vars

C26_Witness ==
    /\ page.init = "failed"
    /\ page.asked = <<"me", "list">>
    /\ page.pushes = 1
    /\ ~page.initialLoading

====
